---- MODULE Spec2Model ----
(***************************************************************************)
(* Model of osnap/analytics/cluster.py: eleven adapter functions that bind *)
(* their arguments, construct one third-party clustering model, fit it and *)
(* return it.                                                              *)
(*                                                                         *)
(* Python values are modelled as strings ("5", "None", "True", "W", ...)   *)
(* so that a value of any type can land in any parameter, as it can in     *)
(* Python.  "W" is a PySAL W instance, "X" the attribute matrix.           *)
(*                                                                         *)
(* The third-party libraries are the environment: a fit either succeeds or *)
(* raises, and a BIC is any value of BICs.                                 *)
(***************************************************************************)
EXTENDS Integers, Sequences, FiniteSets, TLC

VARIABLES calls, heap

vars == <<calls, heap>>

(* ------------------------------ bounds -------------------------------- *)

\* largest max_clusters a caller passes together with best_model=True
MaxClusters == 1
\* the BIC values the library reports are 1..MaxBic
MaxBic == 2
\* most keyword arguments in one call
MaxKw == 3
\* most positional arguments after X in one call
MaxPos == 1

Threads == {"t1", "t2"}
MainThread == "t1"

BICs == 1..MaxBic

Range(s) == {s[i] : i \in 1..Len(s)}

(* ------------------------- Python values ------------------------------ *)

Digits == <<"1", "2", "3", "4", "5", "6", "7", "8", "9", "10">>

\* str(n) of a small natural
StrOf(n) == IF n = 0 THEN "0" ELSE Digits[n]

\* the integer a numeric value stands for
IntOf(s) == CHOOSE n \in 0..Len(Digits) : StrOf(n) = s

\* np.infty: above every BIC
Infty == MaxBic + 1

\* w.sparse: only a W instance has the attribute
HasSparse(w) == w = "W"
Sparse(w) == "W.sparse"

(* ------------------------- the signatures ----------------------------- *)

Aspatial == {"ward", "kmeans", "affinity_propagation", "spectral",
             "gaussian_mixture", "hdbscan"}
Spatial == {"ward_spatial", "spenc", "skater", "azp", "max_p"}
Functions == Aspatial \cup Spatial

\* the named parameters after X, in signature order
Params(fn) ==
  CASE fn = "ward" -> <<"n_clusters">>
    [] fn = "kmeans" -> <<"n_clusters", "seed">>
    [] fn = "affinity_propagation" -> <<"damping", "preference", "verbose", "max_iter">>
    [] fn = "spectral" -> <<"n_clusters", "n_jobs", "affinity">>
    [] fn = "gaussian_mixture" -> <<"n_clusters", "covariance_type", "best_model",
                                    "max_clusters", "random_state">>
    [] fn = "hdbscan" -> <<"min_cluster_size", "gen_min_span_tree">>
    [] fn = "ward_spatial" -> <<"w", "n_clusters">>
    [] fn = "spenc" -> <<"w", "n_clusters", "gamma">>
    [] fn = "skater" -> <<"w", "n_clusters", "floor", "trace", "islands">>
    [] fn = "azp" -> <<"w", "n_clusters">>
    [] fn = "max_p" -> <<"w", "threshold_variable", "threshold">>

\* the defaults of the signatures; a parameter without one is required
Defaults(fn) ==
  CASE fn = "ward" -> [n_clusters |-> "5"]
    [] fn = "kmeans" -> [n_clusters |-> "5", seed |-> "None"]
    [] fn = "affinity_propagation" ->
         [damping |-> "0.8", preference |-> "-1000", verbose |-> "False",
          max_iter |-> "500"]
    [] fn = "spectral" -> [n_clusters |-> "5", n_jobs |-> "-1", affinity |-> "rbf"]
    [] fn = "gaussian_mixture" ->
         [n_clusters |-> "5", covariance_type |-> "full", best_model |-> "False",
          max_clusters |-> "10", random_state |-> "None"]
    [] fn = "hdbscan" -> [min_cluster_size |-> "5", gen_min_span_tree |-> "True"]
    [] fn = "ward_spatial" -> [n_clusters |-> "5"]
    [] fn = "spenc" -> [n_clusters |-> "5", gamma |-> "1"]
    [] fn = "skater" -> [n_clusters |-> "5", floor |-> "-inf", trace |-> "False",
                         islands |-> "increase"]
    [] fn = "azp" -> [n_clusters |-> "5"]
    [] fn = "max_p" -> [threshold_variable |-> "count", threshold |-> "10"]

\* mutant: the aspatial signatures lack **kwargs
HasVarKwMut(fn) == fn \in Spatial

\* does the signature end in **kwargs
HasVarKw(fn) == fn \in Functions

(* Python's argument binding of fn(X, *pos, **kw).  ok is FALSE where the   *)
(* call raises TypeError: too many positionals, a parameter given twice, a  *)
(* required parameter missing, or an unexpected keyword without **kwargs.   *)
Bind(fn, pos, kw) ==
  LET params == Params(fn)
      names == Range(params)
      byPos == IF Len(pos) <= Len(params)
               THEN {params[i] : i \in 1..Len(pos)} ELSE names
      Idx(p) == CHOOSE i \in 1..Len(params) : params[i] = p
      given(p) == p \in byPos \/ p \in DOMAIN kw
      ok == /\ Len(pos) <= Len(params)
            /\ byPos \cap DOMAIN kw = {}
            /\ \A p \in names : given(p) \/ p \in DOMAIN Defaults(fn)
            /\ HasVarKw(fn) \/ DOMAIN kw \subseteq names
  IN [ok |-> ok,
      args |-> IF ok
               THEN [p \in names |->
                       IF p \in byPos THEN pos[Idx(p)]
                       ELSE IF p \in DOMAIN kw THEN kw[p]
                       ELSE Defaults(fn)[p]]
               ELSE <<>>,
      kwargs |-> IF ok THEN [k \in (DOMAIN kw) \ names |-> kw[k]] ELSE <<>>]

(* ------------------------- the library calls -------------------------- *)

NoArgs == [pos |-> <<>>, kw |-> <<>>]

\* the class each adapter instantiates
Cls(fn) ==
  CASE fn \in {"ward", "ward_spatial"} -> "AgglomerativeClustering"
    [] fn = "kmeans" -> "KMeans"
    [] fn = "affinity_propagation" -> "AffinityPropagation"
    [] fn = "spectral" -> "SpectralClustering"
    [] fn = "gaussian_mixture" -> "GaussianMixture"
    [] fn = "hdbscan" -> "HDBSCAN"
    [] fn = "spenc" -> "SPENC"
    [] fn = "skater" -> "Spanning_Forest"
    [] fn = "azp" -> "AZP"
    [] fn = "max_p" -> "MaxPRegionsHeu"

\* GaussianMixture(n_components=..., random_state=..., covariance_type=...)
GMCtor(n_components, random_state, covariance_type) ==
  [pos |-> <<>>,
   kw |-> [n_components |-> n_components, random_state |-> random_state,
           covariance_type |-> covariance_type]]

\* the constructor call of each adapter, from its bound arguments a
Ctor(fn, a) ==
  CASE fn = "ward" ->
         [pos |-> <<>>, kw |-> [n_clusters |-> a.n_clusters, linkage |-> "ward"]]
    [] fn = "kmeans" ->
         [pos |-> <<a.n_clusters>>, kw |-> [random_state |-> a.seed]]
    [] fn = "affinity_propagation" ->
         [pos |-> <<>>, kw |-> [preference |-> a.preference, damping |-> a.damping,
                                verbose |-> a.verbose]]
    [] fn = "spectral" ->
         [pos |-> <<>>, kw |-> [n_clusters |-> a.n_clusters, n_jobs |-> a.n_jobs,
                                affinity |-> a.affinity]]
    [] fn = "gaussian_mixture" ->
         GMCtor(a.n_clusters, a.random_state, a.covariance_type)
    [] fn = "hdbscan" ->
         [pos |-> <<>>, kw |-> [min_cluster_size |-> a.min_cluster_size]]
    [] fn = "ward_spatial" ->
         [pos |-> <<>>, kw |-> [n_clusters |-> a.n_clusters,
                                connectivity |-> Sparse(a.w), linkage |-> "ward"]]
    [] fn = "spenc" ->
         [pos |-> <<>>, kw |-> [n_clusters |-> a.n_clusters, gamma |-> a.gamma]]
    [] fn \in {"skater", "azp", "max_p"} -> NoArgs

\* the fit (or fit_from_w) call of each adapter
Fit(fn, a) ==
  CASE fn \in Aspatial \cup {"ward_spatial"} -> [pos |-> <<"X">>, kw |-> <<>>]
    [] fn = "spenc" -> [pos |-> <<"X", Sparse(a.w)>>, kw |-> <<>>]
    [] fn = "skater" ->
         [pos |-> <<a.n_clusters, a.w>>,
          kw |-> [data |-> "X", quorum |-> a.floor, trace |-> a.trace]]
    [] fn = "azp" ->
         [pos |-> <<>>, kw |-> [attr |-> "X", w |-> a.w, n_regions |-> a.n_clusters]]
    [] fn = "max_p" ->
         [pos |-> <<a.w, "X.values", a.threshold_variable, a.threshold>>,
          kw |-> <<>>]

\* the adapters that read w.sparse
ReadsSparse(fn) == fn \in {"ward_spatial", "spenc"}

\* the label attribute a successful fit of the library class leaves on the model
FitAttrs(cls) ==
  CASE cls = "GaussianMixture" -> {}
    [] cls = "Spanning_Forest" -> {"current_labels_"}
    [] OTHER -> {"labels_"}

\* the attribute the adapter copies into labels_ after fit ("" where it copies none)
LabelsFrom(fn) ==
  CASE fn = "skater" -> "current_labels_"
    [] fn = "gaussian_mixture" -> "predict"
    [] OTHER -> ""

\* mutant: the adapter returns the model as the library left it
AdapterAttrsMut(fn, attrs) == attrs

\* the attributes of the model once the adapter is done with it
AdapterAttrs(fn, attrs) ==
  IF LabelsFrom(fn) = "" THEN attrs ELSE attrs \cup {"labels_"}

cv_types == <<"spherical", "tied", "diag", "full">>

\* mutant: bic[-1] <= lowest_bic
LowerMut(b, lowest_bic) == b <= lowest_bic

\* bic[-1] < lowest_bic
Lower(b, lowest_bic) == b < lowest_bic

\* mutant: the warning is unconditional
ShouldWarnMut(random_state) == TRUE

\* random_state is None
ShouldWarn(random_state) == random_state = "None"

\* best_model is True
BestModel(a) == a.best_model = "True"

(* ------------------------------ the heap ------------------------------ *)

\* a call refers to at most gmm, best_gmm and the object under construction
ObjIds == 1..(3 * Cardinality(Threads))

NoObj == [cls |-> "", ctor |-> NoArgs, fit |-> NoArgs, attrs |-> {}, owner |-> "",
          users |-> {}, fits |-> 0, labelsAt |-> 0, bic |-> 0]

\* mutant: one module-level model instance serves every call
NewObjMut(h) == 1

\* a newly constructed object: the lowest free address
NewObj(h) == CHOOSE i \in ObjIds : h[i] = NoObj /\ \A j \in 1..(i - 1) : h[j] # NoObj

\* cls(**ctor) by thread t
Construct(t, cls, ctor) ==
  [NoObj EXCEPT !.cls = cls, !.ctor = ctor, !.owner = t, !.users = {t}]

\* o.fit(*fit) by thread t, succeeding
Fitted(t, o, fit) ==
  [o EXCEPT !.fit = fit, !.attrs = @ \cup FitAttrs(o.cls), !.fits = @ + 1,
            !.users = @ \cup {t},
            !.labelsAt = IF "labels_" \in FitAttrs(o.cls) THEN o.fits + 1 ELSE @]

\* the objects a call's local variables refer to
Refs(c) == {c.model, c.gmm, c.best_gmm} \ {0}

\* reference counting: an object no call refers to is freed
Collect(h, cs) ==
  [i \in ObjIds |-> IF \E t \in Threads : i \in Refs(cs[t]) THEN h[i] ELSE NoObj]

(* ------------------------------ the calls ----------------------------- *)

IdleCall == [pc |-> "idle", exc |-> "", fn |-> "", pos |-> <<>>, kw |-> <<>>,
             args |-> <<>>, kwargs |-> <<>>, model |-> 0, gmm |-> 0,
             best_gmm |-> 0, lowest_bic |-> 0, bic |-> <<>>, cvi |-> 0, nc |-> 0,
             warned |-> 0, constructed |-> 0]

\* the call after an exception left it: its locals are gone
Raised(c, exc) ==
  [c EXCEPT !.pc = "raised", !.exc = exc, !.model = 0, !.gmm = 0, !.best_gmm = 0]

Init ==
  /\ calls = [t \in Threads |-> IdleCall]
  /\ heap = [i \in ObjIds |-> NoObj]

\* fn(X, *pos, **kw) is called on thread t
Invoke(t, fn, pos, kw) ==
  /\ calls[t].pc = "idle"
  /\ LET b == Bind(fn, pos, kw)
         c == [IdleCall EXCEPT !.fn = fn, !.pos = pos, !.kw = kw,
                               !.args = b.args, !.kwargs = b.kwargs]
     IN calls' = [calls EXCEPT ![t] =
                    IF b.ok THEN [c EXCEPT !.pc = "start"]
                    ELSE Raised(c, "TypeError")]
  /\ UNCHANGED heap

\* the body of an adapter that constructs, fits and returns in one go
Delegate(t, fn) ==
  LET c == calls[t]
      id == NewObj(heap)
      o == Fitted(t, Construct(t, Cls(fn), Ctor(fn, c.args)), Fit(fn, c.args))
      done == [o EXCEPT !.attrs = AdapterAttrs(fn, @),
                        !.labelsAt = IF LabelsFrom(fn) = "" THEN @ ELSE o.fits]
  IN /\ c.pc = "start"
     /\ c.fn = fn
     /\ IF ReadsSparse(fn) /\ ~HasSparse(c.args.w)
        THEN /\ calls' = [calls EXCEPT ![t] = Raised(c, "AttributeError")]
             /\ UNCHANGED heap
        ELSE \E ok \in BOOLEAN :
               IF ok
               THEN /\ calls' = [calls EXCEPT ![t] =
                                   [c EXCEPT !.pc = "returned", !.model = id,
                                             !.constructed = 1]]
                    /\ heap' = Collect([heap EXCEPT ![id] = done], calls')
               ELSE /\ calls' = [calls EXCEPT ![t] = Raised(c, "LibraryError")]
                    /\ UNCHANGED heap

ward(t) == Delegate(t, "ward")
kmeans(t) == Delegate(t, "kmeans")
affinity_propagation(t) == Delegate(t, "affinity_propagation")
spectral(t) == Delegate(t, "spectral")
hdbscan(t) == Delegate(t, "hdbscan")
ward_spatial(t) == Delegate(t, "ward_spatial")
spenc(t) == Delegate(t, "spenc")
skater(t) == Delegate(t, "skater")
azp(t) == Delegate(t, "azp")
max_p(t) == Delegate(t, "max_p")

(* ---------------------- gaussian_mixture, by statement ---------------- *)

\* max = max_clusters + 1
Max(c) == IntOf(c.args.max_clusters) + 1

\* if random_state is None: warn(...)
gaussian_mixture_warn(t) ==
  LET c == calls[t]
  IN /\ c.pc = "start"
     /\ c.fn = "gaussian_mixture"
     /\ calls' = [calls EXCEPT ![t] =
                    [c EXCEPT !.pc = "branch",
                              !.warned = IF ShouldWarn(c.args.random_state)
                                         THEN @ + 1 ELSE @]]
     /\ UNCHANGED heap

\* if best_model is True: the loop is set up; else: model = GaussianMixture(...)
gaussian_mixture_branch(t) ==
  LET c == calls[t]
      id == NewObj(heap)
  IN /\ c.pc = "branch"
     /\ IF BestModel(c.args)
        THEN /\ calls' = [calls EXCEPT ![t] =
                            [c EXCEPT !.lowest_bic = Infty, !.bic = <<>>,
                                      !.cvi = 1, !.nc = 1,
                                      !.pc = IF 1 < Max(c) THEN "loop" ELSE "select"]]
             /\ UNCHANGED heap
        ELSE /\ calls' = [calls EXCEPT ![t] =
                            [c EXCEPT !.model = id, !.constructed = @ + 1,
                                      !.pc = "fit"]]
             /\ heap' = Collect([heap EXCEPT ![id] =
                                   Construct(t, "GaussianMixture",
                                             Ctor("gaussian_mixture", c.args))],
                                calls')

\* gmm = GaussianMixture(n_components, random_state, cv_type)
gaussian_mixture_candidate(t) ==
  LET c == calls[t]
      id == NewObj(heap)
  IN /\ c.pc = "loop"
     /\ calls' = [calls EXCEPT ![t] =
                    [c EXCEPT !.gmm = id, !.constructed = @ + 1, !.pc = "loopfit"]]
     /\ heap' = Collect([heap EXCEPT ![id] =
                           Construct(t, "GaussianMixture",
                                     GMCtor(StrOf(c.nc), c.args.random_state,
                                            cv_types[c.cvi]))],
                        calls')

\* gmm.fit(X)
gaussian_mixture_candidate_fit(t) ==
  LET c == calls[t]
  IN /\ c.pc = "loopfit"
     /\ \E ok \in BOOLEAN :
          IF ok
          THEN /\ calls' = [calls EXCEPT ![t] = [c EXCEPT !.pc = "loopbic"]]
               /\ heap' = [heap EXCEPT ![c.gmm] =
                             Fitted(t, @, Fit("gaussian_mixture", c.args))]
          ELSE /\ calls' = [calls EXCEPT ![t] = Raised(c, "LibraryError")]
               /\ heap' = Collect(heap, calls')

\* bic.append(gmm.bic(X)); the comparison with lowest_bic; the next candidate
gaussian_mixture_bic(t) ==
  LET c == calls[t]
      last == c.nc + 1 >= Max(c)
      more == ~last \/ c.cvi < Len(cv_types)
  IN /\ c.pc = "loopbic"
     /\ \E b \in BICs :
          /\ calls' = [calls EXCEPT ![t] =
                         [c EXCEPT !.bic = Append(@, b),
                                   !.lowest_bic = IF Lower(b, @) THEN b ELSE @,
                                   !.best_gmm = IF Lower(b, c.lowest_bic)
                                                THEN c.gmm ELSE @,
                                   !.nc = IF last THEN 1 ELSE @ + 1,
                                   !.cvi = IF last THEN @ + 1 ELSE @,
                                   !.pc = IF more THEN "loop" ELSE "select"]]
          /\ heap' = Collect([heap EXCEPT ![c.gmm] =
                                [@ EXCEPT !.bic = b, !.users = @ \cup {t}]],
                             calls')

\* model = best_gmm
gaussian_mixture_select(t) ==
  LET c == calls[t]
  IN /\ c.pc = "select"
     /\ calls' = [calls EXCEPT ![t] =
                    IF c.best_gmm = 0 THEN Raised(c, "UnboundLocalError")
                    ELSE [c EXCEPT !.model = c.best_gmm, !.pc = "fit"]]
     /\ heap' = Collect(heap, calls')

\* model.fit(X)
gaussian_mixture_fit(t) ==
  LET c == calls[t]
  IN /\ c.pc = "fit"
     /\ \E ok \in BOOLEAN :
          IF ok
          THEN /\ calls' = [calls EXCEPT ![t] = [c EXCEPT !.pc = "predict"]]
               /\ heap' = [heap EXCEPT ![c.model] =
                             Fitted(t, @, Fit("gaussian_mixture", c.args))]
          ELSE /\ calls' = [calls EXCEPT ![t] = Raised(c, "LibraryError")]
               /\ heap' = Collect(heap, calls')

\* model.labels_ = model.predict(X); return model
gaussian_mixture_predict(t) ==
  LET c == calls[t]
  IN /\ c.pc = "predict"
     /\ calls' = [calls EXCEPT ![t] = [c EXCEPT !.pc = "returned"]]
     /\ heap' = Collect([heap EXCEPT ![c.model] =
                           [@ EXCEPT !.attrs = AdapterAttrs("gaussian_mixture", @),
                                     !.labelsAt = heap[c.model].fits,
                                     !.users = @ \cup {t}]],
                        calls')

\* the caller drops the result (or the exception) and the thread is free again
Release(t) ==
  /\ calls[t].pc \in {"returned", "raised"}
  /\ calls' = [calls EXCEPT ![t] = IdleCall]
  /\ heap' = Collect(heap, calls')

(* ------------------------------ the inputs ---------------------------- *)

\* the keywords a caller passes: the function's own parameters, the weights
\* and one keyword no adapter names
KwOffer(fn) == Range(Params(fn)) \cup {"w", "tol"}

\* the values a caller passes for a keyword
KwVals(k) ==
  CASE k = "n_clusters" -> {"3"}
    [] k = "seed" -> {"7"}
    [] k = "damping" -> {"0.5"}
    [] k = "preference" -> {"-50"}
    [] k = "verbose" -> {"True"}
    [] k = "max_iter" -> {"50"}
    [] k = "n_jobs" -> {"1"}
    [] k = "affinity" -> {"nearest_neighbors"}
    [] k = "covariance_type" -> {"tied"}
    [] k = "best_model" -> {"True"}
    [] k = "max_clusters" -> {StrOf(n) : n \in 0..MaxClusters}
    [] k = "random_state" -> {"0"}
    [] k = "min_cluster_size" -> {"4"}
    [] k = "gen_min_span_tree" -> {"False"}
    [] k = "gamma" -> {"2"}
    [] k = "floor" -> {"6"}
    [] k = "trace" -> {"True"}
    [] k = "islands" -> {"ignore"}
    [] k = "threshold_variable" -> {"pop"}
    [] k = "threshold" -> {"9"}
    [] k = "w" -> {"W"}
    [] k = "tol" -> {"0.1"}

KwSets(fn) ==
  UNION {{f \in [S -> UNION {KwVals(k) : k \in S}] : \A k \in S : f[k] \in KwVals(k)} :
           S \in {S \in SUBSET KwOffer(fn) : Cardinality(S) <= MaxKw}}

PosSets == UNION {[1..n -> {"W"}] : n \in 0..MaxPos}

\* best_model=True comes with an explicit max_clusters (at most MaxClusters),
\* no positionals after X and only gaussian_mixture's own keywords
Bounded(fn, pos, kw) ==
  (fn = "gaussian_mixture" /\ "best_model" \in DOMAIN kw) =>
    /\ "max_clusters" \in DOMAIN kw
    /\ pos = <<>>
    /\ DOMAIN kw \subseteq Range(Params(fn))

\* the calls two threads make at once: no positionals after X and the weights
\* by keyword; the main thread also runs gaussian_mixture's selection loop
SmallKw(t, fn) ==
  {[w |-> "W"]} \cup
  IF fn = "gaussian_mixture" /\ t = MainThread
  THEN {[best_model |-> "True", max_clusters |-> "1"]}
  ELSE {}

Run(t) ==
  \/ ward(t) \/ kmeans(t) \/ affinity_propagation(t) \/ spectral(t) \/ hdbscan(t)
  \/ ward_spatial(t) \/ spenc(t) \/ skater(t) \/ azp(t) \/ max_p(t)
  \/ gaussian_mixture_warn(t) \/ gaussian_mixture_branch(t)
  \/ gaussian_mixture_candidate(t) \/ gaussian_mixture_candidate_fit(t)
  \/ gaussian_mixture_bic(t) \/ gaussian_mixture_select(t)
  \/ gaussian_mixture_fit(t) \/ gaussian_mixture_predict(t)

\* one caller, one call at a time, every input
Next ==
  \/ /\ calls[MainThread].pc = "idle"
     /\ \E fn \in Functions : \E pos \in PosSets : \E kw \in KwSets(fn) :
          Bounded(fn, pos, kw) /\ Invoke(MainThread, fn, pos, kw)
  \/ Run(MainThread)
  \/ Release(MainThread)

Spec == Init /\ [][Next]_vars

\* two callers whose calls interleave statement by statement
NextConc ==
  \/ \E t \in Threads :
       /\ calls[t].pc = "idle"
       /\ \E fn \in Functions : \E kw \in SmallKw(t, fn) : Invoke(t, fn, <<>>, kw)
  \/ \E t \in Threads : Run(t)
  \/ \E t \in Threads : Release(t)

SpecConc == Init /\ [][NextConc]_vars

(* ------------------------------ the claims ---------------------------- *)

\* the values a library call receives
ValuesOf(call) == Range(call.pos) \cup {call.kw[k] : k \in DOMAIN call.kw}

\* the values the constructor and the fit of object o received
Received(o) == ValuesOf(o.ctor) \cup ValuesOf(o.fit)

\* the parameters the caller gave a value, positionally or by keyword
Given(c) ==
  {Params(c.fn)[i] : i \in 1..Len(c.pos)} \cup (DOMAIN c.kw \cap Range(Params(c.fn)))

\* every parameter but w holds the caller's keyword value or its default
KeepsOthers(c) ==
  \A p \in Range(Params(c.fn)) \ {"w"} :
    c.args[p] = IF p \in DOMAIN c.kw THEN c.kw[p] ELSE Defaults(c.fn)[p]

\* the position of the first least element of a non-empty sequence
FirstArgMin(s) ==
  CHOOSE i \in 1..Len(s) :
    /\ \A j \in 1..Len(s) : s[i] <= s[j]
    /\ \A j \in 1..(i - 1) : s[j] > s[i]

\* C1: every adapter call that returns normally returns a model that carries
\* labels_, set by the last fit or assigned by the adapter after that fit.
Thm_C1_LabelsOnReturn ==
  \A t \in Threads :
    calls[t].pc = "returned" =>
      LET o == heap[calls[t].model]
      IN /\ "labels_" \in o.attrs
         /\ o.fits >= 1
         /\ o.labelsAt = o.fits

Wit_C1_SkaterReturned ==
  \E t \in Threads :
    /\ calls[t].pc = "returned"
    /\ calls[t].fn = "skater"
    /\ heap[calls[t].model].attrs = {"current_labels_", "labels_"}

\* C2 (as claimed): every extra keyword argument of a returned call (the
\* weights w aside, which an aspatial function has no use for) reached the
\* library's constructor or fit call under its name and with its value.
CX_C2_KwargsForwarded ==
  \A t \in Threads :
    calls[t].pc = "returned" =>
      LET c == calls[t]
          o == heap[c.model]
      IN \A k \in DOMAIN c.kwargs \ {"w"} :
           \/ k \in DOMAIN o.ctor.kw /\ o.ctor.kw[k] = c.kwargs[k]
           \/ k \in DOMAIN o.fit.kw /\ o.fit.kw[k] = c.kwargs[k]

\* C3 (as claimed): a call fn(X, W, ...) with the weights second binds them as
\* the spatial weights; an aspatial function keeps its other parameters at
\* the caller's values or the defaults.
CX_C3_PositionalWeights ==
  \A t \in Threads :
    LET c == calls[t]
    IN (c.pc # "idle" /\ c.pos = <<"W">> /\ "w" \notin DOMAIN c.kw) =>
         /\ c.exc # "TypeError"
         /\ c.fn \in Spatial => c.args.w = "W"
         /\ c.fn \in Aspatial => KeepsOthers(c)

\* C3 (amended): a call fn(X, w=W, ...) with X the only positional argument
\* binds for all eleven functions: a spatial function receives W as w, an
\* aspatial one collects it in kwargs and passes it to no library call, and
\* every other parameter holds the caller's keyword value or its default.
Thm_C3_KeywordWeights ==
  \A t \in Threads :
    LET c == calls[t]
    IN (c.pc # "idle" /\ c.pos = <<>> /\ "w" \in DOMAIN c.kw) =>
         /\ c.exc # "TypeError"
         /\ c.fn \in Spatial => c.args.w = c.kw.w
         /\ c.fn \in Aspatial =>
              /\ "w" \in DOMAIN c.kwargs
              /\ c.pc = "returned" =>
                   Received(heap[c.model]) \cap {c.kw.w, Sparse(c.kw.w)} = {}
         /\ KeepsOthers(c)

Wit_C3_WardKeywordWeights ==
  \E t \in Threads :
    /\ calls[t].pc = "returned"
    /\ calls[t].fn = "ward"
    /\ calls[t].pos = <<>>
    /\ calls[t].kw = [w |-> "W", n_clusters |-> "3"]
    /\ calls[t].args.n_clusters = "3"

CX_C6_DocumentedDefaults ==
  \A t \in Threads :
    LET c == calls[t]
        o == heap[c.model]
    IN (c.pc = "returned" /\ Given(c) = {}) =>
         /\ c.fn \in {"ward", "kmeans", "spectral"} => "8" \in ValuesOf(o.ctor)
         /\ c.fn = "affinity_propagation" =>
              /\ o.ctor.kw.preference = "None"
              /\ "max_iter" \in DOMAIN o.ctor.kw
              /\ o.ctor.kw.max_iter = "1000"

\* C7 (as claimed): every value the caller gives a named parameter is passed
\* to the library's constructor or fit call (w possibly as w.sparse).
CX_C7_ParametersTakeEffect ==
  \A t \in Threads :
    LET c == calls[t]
    IN (c.pc = "returned" /\ ~(c.fn = "gaussian_mixture" /\ BestModel(c.args))) =>
         \A p \in Given(c) :
           Received(heap[c.model]) \cap {c.args[p], Sparse(c.args[p])} # {}

\* C8: gaussian_mixture warns exactly when random_state is None, once, and
\* before it constructs a GaussianMixture; every GaussianMixture of the call
\* is constructed with the caller's random_state.
Thm_C8_WarnOnceFirst ==
  \A t \in Threads :
    LET c == calls[t]
    IN (c.fn = "gaussian_mixture" /\ c.pc # "idle" /\ c.exc # "TypeError") =>
         /\ c.warned <= 1
         /\ c.pc = "start" => c.warned = 0 /\ c.constructed = 0
         /\ c.pc # "start" => (c.warned = 1 <=> c.args.random_state = "None")
         /\ \A i \in Refs(c) :
              heap[i].ctor.kw.random_state = c.args.random_state

Wit_C8_WarnedBestModel ==
  \E t \in Threads :
    LET c == calls[t]
    IN /\ c.pc = "returned"
       /\ c.fn = "gaussian_mixture"
       /\ BestModel(c.args)
       /\ c.args.random_state = "None"
       /\ c.warned = 1
       /\ c.constructed = Len(cv_types) * IntOf(c.args.max_clusters)

\* C9 (as claimed): the model gaussian_mixture returns was fitted exactly once.
CX_C9_FittedOnce ==
  \A t \in Threads :
    LET c == calls[t]
    IN (c.pc = "returned" /\ c.fn = "gaussian_mixture") =>
         /\ heap[c.model].fits = 1
         /\ heap[c.model].labelsAt = 1

====
